---------------------------- MODULE Spec2Model ----------------------------
(***************************************************************************)
(* Model of the CSV test data generator (src/index.js).                    *)
(*                                                                         *)
(* Strings are sequences of one-character strings, so that split(','),     *)
(* trim() and Number() are computed character by character.  A JavaScript  *)
(* value is a tagged pair: <<"str", s>>, <<"num", n>>, <<"nan", 0>>,       *)
(* <<"null", 0>> or <<"undef", 0>>, and <<"frac", q>> for a number that is  *)
(* no integer.  A JavaScript object with string keys is the sequence of    *)
(* its <<key, value>> pairs in property order.  A rational number is a     *)
(* pair <<p, q>> = p/q in lowest terms with q >= 1; a random draw r in     *)
(* [0,1) is a pair <<k, d>> = k/d with 0 <= k < d.                          *)
(***************************************************************************)
EXTENDS Integers, Sequences, FiniteSets, TLC

\* ------------------------------------------------------------------ bounds
MaxRows == 4
MaxDen == 3
MaxAbs == 2
MaxRecords == 3
MaxInputLen == 2

\* ------------------------------------------------------- JavaScript values
Str(s) == <<"str", s>>
Num(n) == <<"num", n>>
NaN == <<"nan", 0>>
Null == <<"null", 0>>
Undefined == <<"undef", 0>>

\* ------------------------------------------------------- rational numbers
RECURSIVE Gcd(_, _)
Gcd(a, b) == IF b = 0 THEN a ELSE Gcd(b, a % b)

QNorm(p, q) ==
  LET g == Gcd(IF p < 0 THEN -p ELSE p, q) IN <<p \div g, q \div g>>

QInt(n) == <<n, 1>>

QAdd(a, b) == QNorm(a[1] * b[2] + b[1] * a[2], a[2] * b[2])

QSub(a, b) == QNorm(a[1] * b[2] - b[1] * a[2], a[2] * b[2])

QMul(a, b) == QNorm(a[1] * b[1], a[2] * b[2])

QLe(a, b) == a[1] * b[2] <= b[1] * a[2]

\* Math.floor
QFloor(a) == a[1] \div a[2]

\* The JavaScript value of a rational number
NumberValue(a) == IF a[2] = 1 THEN Num(a[1]) ELSE <<"frac", a>>

Digits == <<"0", "1", "2", "3", "4", "5", "6", "7", "8", "9">>

IsDigit(c) == \E d \in 1..10 : Digits[d] = c

DigitVal(c) == (CHOOSE d \in 1..10 : Digits[d] = c) - 1

RECURSIVE DecimalValue(_)
DecimalValue(s) ==
  IF s = <<>> THEN 0
  ELSE 10 * DecimalValue(SubSeq(s, 1, Len(s) - 1)) + DigitVal(s[Len(s)])

RECURSIVE TrimStart(_)
TrimStart(s) ==
  IF s # <<>> /\ s[1] = " " THEN TrimStart(Tail(s)) ELSE s

RECURSIVE TrimEnd(_)
TrimEnd(s) ==
  IF s # <<>> /\ s[Len(s)] = " " THEN TrimEnd(SubSeq(s, 1, Len(s) - 1)) ELSE s

\* String.prototype.trim
Trim(s) == TrimEnd(TrimStart(s))

\* Number(string): surrounding white space is ignored, the empty string is 0,
\* a run of decimal digits is its value, anything else is NaN.  (Signs,
\* fractions, exponents and radix prefixes are outside the model's alphabet.)
StringToNumber(s) ==
  LET t == Trim(s) IN
  IF t = <<>> THEN Num(0)
  ELSE IF \A k \in 1..Len(t) : IsDigit(t[k]) THEN Num(DecimalValue(t))
  ELSE NaN

\* Number(value)
ToNumber(v) ==
  CASE v[1] = "str" -> StringToNumber(v[2])
    [] v[1] \in {"num", "frac"} -> v
    [] v[1] = "null" -> Num(0)
    [] OTHER -> NaN

RECURSIVE Split(_, _)
\* String.prototype.split(sep) for a one-character separator
Split(s, sep) ==
  IF \A k \in 1..Len(s) : s[k] # sep THEN <<s>>
  ELSE LET p == CHOOSE k \in 1..Len(s) :
                  s[k] = sep /\ \A j \in 1..(k - 1) : s[j] # sep
       IN <<SubSeq(s, 1, p - 1)>> \o Split(SubSeq(s, p + 1, Len(s)), sep)

\* ------------------------------------------------------ JavaScript objects
HasKey(obj, key) == \E k \in 1..Len(obj) : obj[k][1] = key

KeyIndex(obj, key) == CHOOSE k \in 1..Len(obj) : obj[k][1] = key

\* obj[key], undefined when the object has no such property
Get(obj, key) == IF HasKey(obj, key) THEN obj[KeyIndex(obj, key)][2] ELSE Undefined

\* Object.keys(obj)
Keys(obj) == [k \in 1..Len(obj) |-> obj[k][1]]

\* A property name that is an array index: a canonical decimal numeral.
IsArrayIndex(key) ==
  /\ key # <<>>
  /\ \A k \in 1..Len(key) : IsDigit(key[k])
  /\ (Len(key) = 1 \/ key[1] # "0")

\* obj[key] = val.  An existing property keeps its place.  A new property
\* whose name is an array index goes among the index properties, in ascending
\* numeric order, before every other property; any other new property goes
\* last (OrdinaryOwnPropertyKeys).
Put(obj, key, val) ==
  IF HasKey(obj, key) THEN [obj EXCEPT ![KeyIndex(obj, key)] = <<key, val>>]
  ELSE IF IsArrayIndex(key)
    THEN LET before == Cardinality({k \in 1..Len(obj) :
                           /\ IsArrayIndex(obj[k][1])
                           /\ DecimalValue(obj[k][1]) < DecimalValue(key)})
         IN SubSeq(obj, 1, before) \o <<(<<key, val>>)>>
              \o SubSeq(obj, before + 1, Len(obj))
    ELSE Append(obj, <<key, val>>)


\* ------------------------------------------------------- value generators
\* Math.floor(r * n) for the draw r = <<k, d>> and an integer n
FloorMul(r, n) == (r[1] * n) \div r[2]

\* Math.floor(Math.random() * (max - min + 1)) + min, for rational min and max
getRandomNumber(min, max, r) ==
  QAdd(QInt(QFloor(QMul(QNorm(r[1], r[2]), QAdd(QSub(max, min), QInt(1))))), min)

chars ==
  <<"A", "B", "C", "D", "E", "F", "G", "H", "I", "J", "K", "L", "M",
    "N", "O", "P", "Q", "R", "S", "T", "U", "V", "W", "X", "Y", "Z",
    "a", "b", "c", "d", "e", "f", "g", "h", "i", "j", "k", "l", "m",
    "n", "o", "p", "q", "r", "s", "t", "u", "v", "w", "x", "y", "z",
    "0", "1", "2", "3", "4", "5", "6", "7", "8", "9">>

\* The number of draws getRandomString(length) makes
StringDraws(length) == IF length > 0 THEN length ELSE 0

\* rs: the draws of the loop, one per character
getRandomString(length, rs) ==
  [k \in 1..StringDraws(length) |-> chars[FloorMul(rs[k], Len(chars)) + 1]]

getRandomStringWithPrefix(prefix, length, rs) ==
  prefix \o getRandomString(length, rs)

\* list[Math.floor(r * list.length)]; list[0] of an empty list is undefined
getRandomFromList(list, r) ==
  IF list = <<>> THEN Undefined ELSE list[FloorMul(r, Len(list)) + 1]

\* ------------------------------------------------------------- value pool
RECURSIVE SetOrder(_)
\* [...new Set(values)]: the distinct values in order of first occurrence
SetOrder(values) ==
  IF values = <<>> THEN <<>>
  ELSE LET front == SetOrder(SubSeq(values, 1, Len(values) - 1))
           last == values[Len(values)]
       IN IF \E k \in 1..Len(front) : front[k] = last
            THEN front ELSE Append(front, last)

Usable(val) == val # Undefined /\ val # Null /\ val # Str(<<>>)

UsableOrNull(val) == val # Undefined /\ val # Str(<<>>)

getUniqueValuesKeepingNull(records, header) ==
  SelectSeq(SetOrder([k \in 1..Len(records) |-> Get(records[k], header)]),
            UsableOrNull)

getUniqueValuesFromColumn(records, header) ==
  SelectSeq(SetOrder([k \in 1..Len(records) |-> Get(records[k], header)]),
            Usable)

\* ---------------------------------------------------------- template store
\* JSON.stringify of a value inside an array: NaN and undefined become null
JsonOfValue(v) ==
  CASE v[1] = "str" -> <<"jstr", v[2]>>
    [] v[1] = "num" -> <<"jnum", v[2]>>
    [] v[1] = "frac" -> <<"jfrac", v[2]>>
    [] OTHER -> <<"jnull", 0>>

\* JSON.parse of a string, a number or null
ValueOfJson(j) ==
  CASE j[1] = "jstr" -> Str(j[2])
    [] j[1] = "jnum" -> Num(j[2])
    [] j[1] = "jfrac" -> <<"frac", j[2]>>
    [] OTHER -> Null

JsonOfConfig(c) ==
  IF "list" \in DOMAIN c
    THEN [c EXCEPT !.list = [k \in 1..Len(c.list) |-> JsonOfValue(c.list[k])]]
    ELSE c

ConfigOfJson(c) ==
  IF "list" \in DOMAIN c
    THEN [c EXCEPT !.list = [k \in 1..Len(c.list) |-> ValueOfJson(c.list[k])]]
    ELSE c

JsonOfTemplate(t) ==
  [t EXCEPT !.columnConfigurations =
     [k \in 1..Len(t.columnConfigurations) |->
        JsonOfConfig(t.columnConfigurations[k])]]

TemplateOfJson(t) ==
  [t EXCEPT !.columnConfigurations =
     [k \in 1..Len(t.columnConfigurations) |->
        ConfigOfJson(t.columnConfigurations[k])]]

\* JSON.stringify(config, null, 2): the document written to config.json
JSONstringify(config) ==
  [k \in 1..Len(config.templates) |-> JsonOfTemplate(config.templates[k])]

\* JSON.parse(configData)
JSONparse(doc) ==
  [templates |-> [k \in 1..Len(doc) |-> TemplateOfJson(doc[k])]]

\* config.json: kind "missing" (no such file), "corrupt" (a file that cannot
\* be read or whose text does not parse; doc is what it was meant to hold)
\* or "json" (doc parses).
MissingFile == [kind |-> "missing", doc |-> <<>>]

\* The catch clause left out: the damaged text is read as far as it goes.
loadConfigurationsLenient(file) ==
  IF file.kind = "missing" THEN [templates |-> <<>>] ELSE JSONparse(file.doc)

loadConfigurations(file) ==
  IF file.kind = "json" THEN JSONparse(file.doc) ELSE [templates |-> <<>>]

\* templates.findIndex(t => t.name === name), 0 for JavaScript's -1
FindTemplate(templates, name) ==
  IF \E k \in 1..Len(templates) : templates[k].name = name
    THEN CHOOSE k \in 1..Len(templates) :
           /\ templates[k].name = name
           /\ \A j \in 1..(k - 1) : templates[j].name # name
    ELSE 0

\* The update with the test on templateIndex left out
PushTemplate(templates, newTemplate) == Append(templates, newTemplate)

\* if (templateIndex >= 0) templates[templateIndex] = newTemplate
\* else templates.push(newTemplate)
PutTemplate(templates, newTemplate) ==
  LET templateIndex == FindTemplate(templates, newTemplate.name) IN
  IF templateIndex > 0
    THEN [templates EXCEPT ![templateIndex] = newTemplate]
    ELSE Append(templates, newTemplate)

\* The result of saveConfiguration: the file afterwards and the value
\* returned.  now: the clock's reading; writeOk: whether writeFileSync
\* succeeds (when it throws, the catch clause returns false).
saveConfiguration(file, name, sourceFile, columnConfigurations, numRecords, includeHeader, now, writeOk) ==
  LET config == loadConfigurations(file)
      newTemplate == [name |-> name,
                      sourceFile |-> sourceFile,
                      columnConfigurations |-> columnConfigurations,
                      numRecords |-> numRecords,
                      includeHeader |-> includeHeader,
                      createdAt |-> now]
      updated == [templates |-> PutTemplate(config.templates, newTemplate)]
  IN IF writeOk
       THEN [file |-> [kind |-> "json", doc |-> JSONstringify(updated)],
             ret |-> TRUE]
       ELSE [file |-> file, ret |-> FALSE]

\* --------------------------------------------------- column configuration
NotNaN(v) == v # NaN

AnyValue(v) == TRUE

\* uniqueValues.map(val => Number(val)) with the isNaN filter left out
numericValuesUnfiltered(uniqueValues) ==
  SelectSeq([k \in 1..Len(uniqueValues) |-> ToNumber(uniqueValues[k])], AnyValue)

\* uniqueValues.map(val => Number(val)).filter(val => !isNaN(val))
numericValues(uniqueValues) ==
  SelectSeq([k \in 1..Len(uniqueValues) |-> ToNumber(uniqueValues[k])], NotNaN)

\* filter: input => input.split(',').map(Number)
numericListFilter(input) ==
  LET parts == Split(input, ",") IN
  [k \in 1..Len(parts) |-> StringToNumber(parts[k])]

\* filter: input => input.split(',').map(v => v.trim())
alphaListFilter(input) ==
  LET parts == Split(input, ",") IN
  [k \in 1..Len(parts) |-> Str(Trim(parts[k]))]

\* The result of configureColumn: the columnConfig returned and the prompts
\* asked, in order.  ans: the user's answers (generationType, min, max,
\* useSource, listInput, length, prefix, start, step); an answer to a prompt
\* that is not asked is not read.
configureColumn(header, records, ans) ==
  LET uniqueValues == getUniqueValuesFromColumn(records, header)
      generationType == ans.generationType
      type == IF generationType = "3-source" THEN "3" ELSE generationType
      nums == numericValues(uniqueValues)
  IN CASE generationType = "1" ->
            [config |-> [header |-> header, type |-> type,
                         min |-> ans.min, max |-> ans.max],
             asked |-> <<"generationType", "min", "max">>]
       [] generationType = "2" ->
            IF ans.useSource
              THEN IF Len(nums) = 0
                     THEN [config |-> [header |-> header, type |-> type,
                                       list |-> numericListFilter(ans.listInput)],
                           asked |-> <<"generationType", "useSource", "numericList">>]
                     ELSE [config |-> [header |-> header, type |-> type,
                                       list |-> nums],
                           asked |-> <<"generationType", "useSource">>]
              ELSE [config |-> [header |-> header, type |-> type,
                                list |-> numericListFilter(ans.listInput)],
                    asked |-> <<"generationType", "useSource", "numericList">>]
       [] generationType = "3-source" ->
            IF Len(uniqueValues) = 0
              THEN [config |-> [header |-> header, type |-> type,
                                list |-> alphaListFilter(ans.listInput)],
                    asked |-> <<"generationType", "alphaList">>]
              ELSE [config |-> [header |-> header, type |-> type,
                                list |-> uniqueValues],
                    asked |-> <<"generationType">>]
       [] generationType \in {"3", "6"} ->
            IF ans.useSource
              THEN IF Len(uniqueValues) = 0
                     THEN [config |-> [header |-> header, type |-> type,
                                       list |-> alphaListFilter(ans.listInput)],
                           asked |-> <<"generationType", "useSource", "alphaList">>]
                     ELSE [config |-> [header |-> header, type |-> type,
                                       list |-> uniqueValues],
                           asked |-> <<"generationType", "useSource">>]
              ELSE [config |-> [header |-> header, type |-> type,
                                list |-> alphaListFilter(ans.listInput)],
                    asked |-> <<"generationType", "useSource", "alphaList">>]
       [] generationType = "4" ->
            [config |-> [header |-> header, type |-> type,
                         length |-> ans.length],
             asked |-> <<"generationType", "length">>]
       [] generationType = "7" ->
            [config |-> [header |-> header, type |-> type,
                         prefix |-> ans.prefix, length |-> ans.length],
             asked |-> <<"generationType", "prefix", "length">>]
       [] generationType = "5" ->
            [config |-> [header |-> header, type |-> type,
                         start |-> ans.start, step |-> ans.step],
             asked |-> <<"generationType", "start", "step">>]

\* ------------------------------------------------------------ source file
\* A source file: kind "missing", or "csv" with its header line and its data
\* lines, each a sequence of cells.
MissingSource == [kind |-> "missing", header |-> <<>>, rows |-> <<>>]

RECURSIVE RowObject(_, _)
\* One record of csvParse.parse(text, {columns: true}): the cells assigned
\* to the column names, in column order
RowObject(header, cells) ==
  IF header = <<>> THEN <<>>
  ELSE Put(RowObject(SubSeq(header, 1, Len(header) - 1), cells),
           header[Len(header)], Str(cells[Len(header)]))

csvParse(content) ==
  [k \in 1..Len(content.rows) |-> RowObject(content.header, content.rows[k])]

\* ------------------------------------------------------------- generation
\* The number of draws of Math.random() one value of the column takes
DrawsOf(config) ==
  CASE config.type \in {"1", "2", "3"} -> 1
    [] config.type \in {"4", "7"} -> StringDraws(config.length)
    [] OTHER -> 0

RECURSIVE TotalDraws(_)
TotalDraws(configs) ==
  IF configs = <<>> THEN 0
  ELSE TotalDraws(Tail(configs)) + DrawsOf(configs[1])

\* The list taken from its start whatever the row
cyclicValueFirst(list, i) ==
  IF list = <<>> THEN Undefined ELSE list[1]

\* list[i % list.length]; i % 0 is NaN and list[NaN] is undefined
cyclicValue(list, i) ==
  IF list = <<>> THEN Undefined ELSE list[(i % Len(list)) + 1]

\* The switch on config.type: the value of the column in row i
generateValue(config, i, rs) ==
  CASE config.type = "1" ->
         NumberValue(getRandomNumber(config.min, config.max, rs[1]))
    [] config.type \in {"2", "3"} -> getRandomFromList(config.list, rs[1])
    [] config.type = "4" -> Str(getRandomString(config.length, rs))
    [] config.type = "5" -> Num(config.start + (i * config.step))
    [] config.type = "6" -> cyclicValue(config.list, i)
    [] config.type = "7" ->
         Str(getRandomStringWithPrefix(config.prefix, config.length, rs))

RECURSIVE generateRecord(_, _, _)
\* The inner loop: record[config.header] = value, for each config in order
generateRecord(configs, i, rs) ==
  IF configs = <<>> THEN <<>>
  ELSE LET n == Len(configs)
           front == SubSeq(configs, 1, n - 1)
           used == TotalDraws(front)
       IN Put(generateRecord(front, i, SubSeq(rs, 1, used)),
              configs[n].header,
              generateValue(configs[n], i, SubSeq(rs, used + 1, Len(rs))))

\* csvStringify.stringify(outputData, {header}): the header line (when asked
\* for, the property names of the first record) and the number of data lines
csvStringify(outputData, includeHeader) ==
  [header |-> IF includeHeader /\ outputData # <<>>
                THEN Keys(outputData[1]) ELSE <<>>,
   lines |-> Len(outputData)]

\* ----------------------------------------------------------------- inputs
\* parseInt(input): leading white space, an optional sign, then the longest
\* run of decimal digits; NaN when there is none
parseInt(input) ==
  LET t == TrimStart(input)
      neg == t # <<>> /\ t[1] = "-"
      u == IF t # <<>> /\ t[1] \in {"-", "+"} THEN Tail(t) ELSE t
      n == Cardinality({k \in 1..Len(u) : \A j \in 1..k : IsDigit(u[j])})
  IN IF n = 0 THEN NaN
     ELSE Num((IF neg THEN -1 ELSE 1) * DecimalValue(SubSeq(u, 1, n)))

\* validate of the custom number of records: isNaN(num) || num <= 0 is refused
validRecords(input) ==
  LET num == parseInt(input) IN num # NaN /\ num[2] > 0

recordOptions == <<100, 500, 1000, 2000, 5000, 10000>>

RECURSIVE StringsUpTo(_, _)
\* Every string over the alphabet of at most n characters
StringsUpTo(alphabet, n) ==
  IF n = 0 THEN {<<>>}
  ELSE LET shorter == StringsUpTo(alphabet, n - 1)
       IN shorter \cup {Append(s, c) : s \in shorter, c \in alphabet}

Answer(generationType, min, max, useSource, listInput, length, prefix, start, step) ==
  [generationType |-> generationType, min |-> min, max |-> max,
   useSource |-> useSource, listInput |-> listInput, length |-> length,
   prefix |-> prefix, start |-> start, step |-> step]

\* The answers a user may give to configureColumn's prompts: min and max
\* among ranges (rational numbers), start and step among nums, the list
\* inputs among inputs, the lengths among lengths
Answers(ranges, nums, inputs, lengths) ==
  {Answer("1", min, max, FALSE, <<>>, 0, <<>>, 0, 0) : min \in ranges, max \in ranges}
  \cup {Answer(t, QInt(0), QInt(0), u, input, 0, <<>>, 0, 0) :
          t \in {"2", "3", "6"}, u \in BOOLEAN, input \in inputs}
  \cup {Answer("3-source", QInt(0), QInt(0), FALSE, input, 0, <<>>, 0, 0) : input \in inputs}
  \cup {Answer("4", QInt(0), QInt(0), FALSE, <<>>, length, <<>>, 0, 0) : length \in lengths}
  \cup {Answer("7", QInt(0), QInt(0), FALSE, <<>>, length, <<"I", "D", "-">>, 0, 0) :
          length \in lengths}
  \cup {Answer("5", QInt(0), QInt(0), FALSE, <<>>, 0, <<>>, start, step) :
          start \in nums, step \in nums}

\* The files a run may find.  The source has its columns "a" and "1" in that
\* order; column "1" holds a number and a word, column "a" repeats a value
\* and has an empty cell.
Paths == {"a.csv", "b.csv"}

SourceContents ==
  { MissingSource,
    [kind |-> "csv", header |-> << <<"a">>, <<"1">> >>, rows |-> <<>>],
    [kind |-> "csv", header |-> << <<"a">>, <<"1">> >>,
     rows |-> << << <<"x">>, <<"7">> >>, << <<"x">>, <<"a", "b">> >>,
                 << <<>>, <<"7">> >> >>],
    [kind |-> "csv", header |-> << <<"b">> >>, rows |-> << << <<>> >> >>] }

Template(name, sourceFile, columnConfigurations, numRecords, includeHeader) ==
  [name |-> name, sourceFile |-> sourceFile,
   columnConfigurations |-> columnConfigurations, numRecords |-> numRecords,
   includeHeader |-> includeHeader, createdAt |-> 0]

\* Templates config.json may hold when the run starts: written by an earlier
\* run or by hand
StoredTemplates ==
  << Template(<<"t">>, "a.csv",
              << [header |-> <<"1">>, type |-> "6",
                  list |-> << <<"jstr", <<"x">> >>, <<"jstr", <<"y">> >> >>],
                 [header |-> <<"a">>, type |-> "5", start |-> 1, step |-> 2] >>,
              4, TRUE),
     Template(<<"u">>, "a.csv",
              << [header |-> <<"a">>, type |-> "1", min |-> <<1, 1>>, max |-> <<2, 1>>] >>,
              0, FALSE),
     Template(<<"t">>, "b.csv",
              << [header |-> <<"b">>, type |-> "4", length |-> 1] >>,
              1, TRUE) >>

ConfigFiles ==
  { MissingFile,
    [kind |-> "corrupt", doc |-> <<StoredTemplates[1]>>],
    [kind |-> "json", doc |-> <<>>],
    [kind |-> "json", doc |-> <<StoredTemplates[1]>>],
    [kind |-> "json", doc |-> <<StoredTemplates[2], StoredTemplates[1]>>],
    [kind |-> "json", doc |-> <<StoredTemplates[3], StoredTemplates[2]>>] }

MainDraws == {<<0, 1>>, <<1, 2>>}

MainAnswers ==
  Answers({<<1, 1>>, <<2, 1>>}, {1, 2}, {<<>>, <<"a">>, <<"8", ",", " ", "9">>}, {0, 1})

NameInputs == {<<"t">>, <<"u">>, <<" ">>}

RecordInputs == StringsUpTo({"0", "1", "4", "a", "-"}, MaxInputLen)

\* ------------------------------------------------------------------ state
VARIABLES
  configFile,            \* config.json
  fs,                    \* the source files, by path
  pc,                    \* where main is
  config,                \* main's config, as loaded
  useTemplate, templateConfig,
  sourceFilePath, records, headers,
  columnConfigurations, numRecords, includeHeader,
  editQueue,             \* columnsToEdit.columns, those still to edit
  outputData,
  outputFile,            \* the output CSV file, once written
  savedName, saveResult, \* the name given to saveConfiguration, its result
  exitCode,              \* the process's exit code, -1 while it runs
  call                   \* a single call of a function: its arguments, its result

vars ==
  <<configFile, fs, pc, config, useTemplate, templateConfig, sourceFilePath,
    records, headers, columnConfigurations, numRecords, includeHeader,
    editQueue, outputData, outputFile, savedName, saveResult, exitCode, call>>

\* let templateConfig = null: a record with no field of a template, so that
\* the variable holds records throughout
NoTemplate == [null |-> TRUE]

NoCall == [fn |-> "none", args |-> <<>>, ret |-> <<>>, done |-> FALSE]

NoOutput == [written |-> FALSE, header |-> <<>>, lines |-> 0]

Init ==
  /\ configFile \in ConfigFiles
  /\ \E content \in SourceContents :
       fs = [p \in Paths |-> IF p = "a.csv" THEN content ELSE MissingSource]
  /\ pc = "start"
  /\ config = [templates |-> <<>>]
  /\ useTemplate = FALSE
  /\ templateConfig = NoTemplate
  /\ sourceFilePath = ""
  /\ records = <<>>
  /\ headers = <<>>
  /\ columnConfigurations = <<>>
  /\ numRecords = Undefined
  /\ includeHeader = Undefined
  /\ editQueue = <<>>
  /\ outputData = <<>>
  /\ outputFile = NoOutput
  /\ savedName = <<>>
  /\ saveResult = FALSE
  /\ exitCode = -1
  /\ call = NoCall

\* ---------------------------------------------------------------- actions
\* main, up to the first prompt: the saved configurations are loaded
Start ==
  /\ pc = "start"
  /\ config' = loadConfigurations(configFile)
  /\ pc' = IF Len(config'.templates) > 0 THEN "chooseTemplate" ELSE "source"
  /\ UNCHANGED <<configFile, fs, useTemplate, templateConfig, sourceFilePath,
                 records, headers, columnConfigurations, numRecords,
                 includeHeader, editQueue, outputData, outputFile, savedName,
                 saveResult, exitCode, call>>

\* The answer to "use a saved template or create a new configuration?"
ChooseTemplate ==
  /\ pc = "chooseTemplate"
  /\ \/ /\ useTemplate' = FALSE
        /\ templateConfig' = templateConfig
     \/ \E k \in 1..Len(config.templates) :
          /\ useTemplate' = TRUE
          /\ templateConfig' =
               config.templates[FindTemplate(config.templates,
                                             config.templates[k].name)]
  /\ pc' = "source"
  /\ UNCHANGED <<configFile, fs, config, sourceFilePath, records, headers,
                 columnConfigurations, numRecords, includeHeader, editQueue,
                 outputData, outputFile, savedName, saveResult, exitCode, call>>

\* Only the check that the file exists, the check for no records left out
ReadFailsIfMissing(file) == file.kind = "missing"

\* The two checks that end the run with process.exit(1): the file does not
\* exist, or it parses to no records
ReadFails(file) == file.kind = "missing" \/ Len(csvParse(file)) = 0

\* readFileSync of a file that is not there, or Object.keys(records[0]) of no
\* records: an error thrown into main's catch
ReadThrows(file) == file.kind = "missing" \/ Len(csvParse(file)) = 0

\* The source path (the template's, else the command line's argument, which
\* may name no file, else the path entered), the file read and parsed, and
\* with a template its configurations taken
ReadSource ==
  /\ pc = "source"
  /\ \E path \in Paths :
       /\ useTemplate => path = templateConfig.sourceFile
       /\ sourceFilePath' = path
       /\ LET parsed == csvParse(fs[path]) IN
          IF ReadFails(fs[path])
            THEN /\ pc' = "exit"
                 /\ exitCode' = 1
                 /\ UNCHANGED <<records, headers, columnConfigurations,
                                numRecords, includeHeader>>
          ELSE IF ReadThrows(fs[path])
            THEN \* caught and logged: main returns, the process ends with 0
                 /\ pc' = "done"
                 /\ exitCode' = 0
                 /\ UNCHANGED <<records, headers, columnConfigurations,
                                numRecords, includeHeader>>
            ELSE /\ records' = parsed
                 /\ headers' = Keys(parsed[1])
                 /\ exitCode' = exitCode
                 /\ IF useTemplate
                      THEN /\ columnConfigurations' =
                                templateConfig.columnConfigurations
                           /\ numRecords' = templateConfig.numRecords
                           /\ includeHeader' = templateConfig.includeHeader
                           /\ pc' = "askEdit"
                      ELSE /\ pc' = "configure"
                           /\ UNCHANGED <<columnConfigurations, numRecords,
                                          includeHeader>>
  /\ UNCHANGED <<configFile, fs, config, useTemplate, templateConfig,
                 editQueue, outputData, outputFile, savedName, saveResult, call>>

\* The columns among headers that the checkbox prompt returns, in the order
\* of its choices
Checked(hs, chosen) == SelectSeq(hs, LAMBDA h : h \in chosen)

\* The answers to "edit any column configurations?" and "select columns"
AskEdit ==
  /\ pc = "askEdit"
  /\ \/ /\ editQueue' = <<>>
        /\ pc' = "generate"
     \/ \E chosen \in SUBSET {headers[k] : k \in 1..Len(headers)} :
          /\ editQueue' = Checked(headers, chosen)
          /\ pc' = IF chosen = {} THEN "generate" ELSE "edit"
  /\ UNCHANGED <<configFile, fs, config, useTemplate, templateConfig,
                 sourceFilePath, records, headers, columnConfigurations,
                 numRecords, includeHeader, outputData, outputFile, savedName,
                 saveResult, exitCode, call>>

\* findIndex(c => c.header === header), 0 for JavaScript's -1
FindColumn(configs, header) ==
  IF \E k \in 1..Len(configs) : configs[k].header = header
    THEN CHOOSE k \in 1..Len(configs) :
           /\ configs[k].header = header
           /\ \A j \in 1..(k - 1) : configs[j].header # header
    ELSE 0

\* The edit with the removal of the existing configuration left out
pushColumn(configs, header, newConfig) == Append(configs, newConfig)

\* if (columnIndex >= 0) splice(columnIndex, 1); then push(config)
editColumn(configs, header, newConfig) ==
  LET columnIndex == FindColumn(configs, header) IN
  IF columnIndex > 0
    THEN Append(SubSeq(configs, 1, columnIndex - 1)
                  \o SubSeq(configs, columnIndex + 1, Len(configs)), newConfig)
    ELSE Append(configs, newConfig)

\* One turn of the loop over the columns to edit
EditColumn ==
  /\ pc = "edit"
  /\ \E ans \in MainAnswers :
       columnConfigurations' =
         editColumn(columnConfigurations, Head(editQueue),
                    configureColumn(Head(editQueue), records, ans).config)
  /\ editQueue' = Tail(editQueue)
  /\ pc' = IF editQueue' = <<>> THEN "generate" ELSE "edit"
  /\ UNCHANGED <<configFile, fs, config, useTemplate, templateConfig,
                 sourceFilePath, records, headers, numRecords, includeHeader,
                 outputData, outputFile, savedName, saveResult, exitCode, call>>

\* One turn of the loop over headers of a run from scratch
ConfigureNext ==
  /\ pc = "configure"
  /\ LET header == headers[Len(columnConfigurations) + 1] IN
     \E ans \in MainAnswers :
       columnConfigurations' =
         Append(columnConfigurations, configureColumn(header, records, ans).config)
  /\ pc' = IF Len(columnConfigurations') = Len(headers)
             THEN "askNumRecords" ELSE "configure"
  /\ UNCHANGED <<configFile, fs, config, useTemplate, templateConfig,
                 sourceFilePath, records, headers, numRecords, includeHeader,
                 editQueue, outputData, outputFile, savedName, saveResult,
                 exitCode, call>>

\* "How many records to generate?": one of recordOptions, or a custom number,
\* which the prompt takes once validate accepts it
AskNumRecords ==
  /\ pc = "askNumRecords"
  /\ \/ \E k \in 1..Len(recordOptions) : numRecords' = recordOptions[k]
     \/ \E input \in RecordInputs :
          /\ validRecords(input)
          /\ numRecords' = parseInt(input)[2]
  /\ pc' = "askHeader"
  /\ UNCHANGED <<configFile, fs, config, useTemplate, templateConfig,
                 sourceFilePath, records, headers, columnConfigurations,
                 includeHeader, editQueue, outputData, outputFile, savedName,
                 saveResult, exitCode, call>>

\* "Include header row?"
AskHeader ==
  /\ pc = "askHeader"
  /\ includeHeader' \in BOOLEAN
  /\ pc' = "generate"
  /\ UNCHANGED <<configFile, fs, config, useTemplate, templateConfig,
                 sourceFilePath, records, headers, columnConfigurations,
                 numRecords, editQueue, outputData, outputFile, savedName,
                 saveResult, exitCode, call>>

\* One turn of the generation loop, i = outputData.length.  A run of more
\* than MaxRows rows is followed up to the loop and no further.
GenerateRow ==
  /\ pc = "generate"
  /\ Len(outputData) < numRecords
  /\ numRecords <= MaxRows
  /\ \E rs \in [1..TotalDraws(columnConfigurations) -> MainDraws] :
       outputData' =
         Append(outputData,
                generateRecord(columnConfigurations, Len(outputData), rs))
  /\ UNCHANGED <<configFile, fs, pc, config, useTemplate, templateConfig,
                 sourceFilePath, records, headers, columnConfigurations,
                 numRecords, includeHeader, editQueue, outputFile, savedName,
                 saveResult, exitCode, call>>

\* The loop left, the output path asked for and the CSV written
WriteOutput ==
  /\ pc = "generate"
  /\ ~(Len(outputData) < numRecords)
  /\ outputFile' = [written |-> TRUE] @@ csvStringify(outputData, includeHeader)
  /\ pc' = IF useTemplate THEN "done" ELSE "askSave"
  /\ exitCode' = IF useTemplate THEN 0 ELSE exitCode
  /\ UNCHANGED <<configFile, fs, config, useTemplate, templateConfig,
                 sourceFilePath, records, headers, columnConfigurations,
                 numRecords, includeHeader, editQueue, outputData, savedName,
                 saveResult, call>>

\* "Save this configuration as a template?", the name (taken once validate
\* accepts it) and saveConfiguration
AskSave ==
  /\ pc = "askSave"
  /\ \/ UNCHANGED <<configFile, savedName, saveResult>>
     \/ \E name \in NameInputs, writeOk \in BOOLEAN :
          /\ Trim(name) # <<>>
          /\ LET r == saveConfiguration(configFile, name, sourceFilePath,
                                        columnConfigurations, numRecords,
                                        includeHeader, 1, writeOk)
             IN /\ configFile' = r.file
                /\ saveResult' = r.ret
          /\ savedName' = name
  /\ pc' = "done"
  /\ exitCode' = 0
  /\ UNCHANGED <<fs, config, useTemplate, templateConfig, sourceFilePath,
                 records, headers, columnConfigurations, numRecords,
                 includeHeader, editQueue, outputData, outputFile, call>>

Next ==
  \/ Start
  \/ ChooseTemplate
  \/ ReadSource
  \/ AskEdit
  \/ EditColumn
  \/ ConfigureNext
  \/ AskNumRecords
  \/ AskHeader
  \/ GenerateRow
  \/ WriteOutput
  \/ AskSave

Spec == Init /\ [][Next]_vars

\* From the source path known to process.exit(1) main waits for nobody: the
\* path of a template or of the command line is read without a prompt, and a
\* path asked for is taken once the prompt's validate has found the file.
SpecFair == Spec /\ WF_pc(ReadSource)

\* ------------------------------------------------- single function calls
\* Every draw k/d with d <= MaxDen
Draws == {r \in (0..(MaxDen - 1)) \X (1..MaxDen) : r[1] < r[2]}

\* The values a record may hold under a column name, and the records: one
\* without the property, one for each value
CallValues == {Str(<<>>), Str(<<"a">>), Str(<<"b">>), Null, Undefined}

CallObjects == {<<>>} \cup {<< <<(<<"c">>), v>> >> : v \in CallValues}

RECURSIVE SeqsUpTo(_, _)
\* Every sequence over the set of at most n elements
SeqsUpTo(set, n) ==
  IF n = 0 THEN {<<>>}
  ELSE LET shorter == SeqsUpTo(set, n - 1)
       IN shorter \cup {Append(s, x) : s \in shorter, x \in set}

\* The cells of a parsed source column
CellStrings == {<<>>, <<"1">>, <<"a", "b">>, <<" ">>}

CellObjects == {<< <<(<<"c">>), Str(s)>> >> : s \in CellStrings}

ListInputs == StringsUpTo({"1", "a", ",", " "}, MaxInputLen)

Call(fn, args) == [fn |-> fn, args |-> args, ret |-> <<>>, done |-> FALSE]

\* The integers and the halves from -n to n
Halves(n) == {QNorm(p, 2) : p \in (-2 * n)..(2 * n)}

\* The calls made: min and max of at most maxAbs, at most maxRecords records
Calls(maxAbs, maxRecords) ==
  {Call("getRandomNumber", <<min, max, r>>) :
     min \in Halves(maxAbs), max \in Halves(maxAbs), r \in Draws}
  \cup {Call("getUniqueValuesFromColumn", <<rs, <<"c">> >>) :
          rs \in SeqsUpTo(CallObjects, maxRecords)}
  \cup {Call("configureColumn", <<(<<"c">>), rs, ans>>) :
          rs \in SeqsUpTo(CellObjects, maxRecords),
          ans \in Answers({<<0, 1>>}, {0}, ListInputs, {1})}

InitCall ==
  /\ call \in Calls(MaxAbs, MaxRecords)
  /\ configFile = MissingFile
  /\ fs = [p \in Paths |-> MissingSource]
  /\ pc = "call"
  /\ config = [templates |-> <<>>]
  /\ useTemplate = FALSE
  /\ templateConfig = NoTemplate
  /\ sourceFilePath = ""
  /\ records = <<>>
  /\ headers = <<>>
  /\ columnConfigurations = <<>>
  /\ numRecords = Undefined
  /\ includeHeader = Undefined
  /\ editQueue = <<>>
  /\ outputData = <<>>
  /\ outputFile = NoOutput
  /\ savedName = <<>>
  /\ saveResult = FALSE
  /\ exitCode = -1

mainVars ==
  <<configFile, fs, pc, config, useTemplate, templateConfig, sourceFilePath,
    records, headers, columnConfigurations, numRecords, includeHeader,
    editQueue, outputData, outputFile, savedName, saveResult, exitCode>>

CallRandomNumber ==
  /\ call.fn = "getRandomNumber" /\ ~call.done
  /\ call' = [call EXCEPT
                !.ret = getRandomNumber(call.args[1], call.args[2], call.args[3]),
                !.done = TRUE]
  /\ UNCHANGED mainVars

CallUniqueValues ==
  /\ call.fn = "getUniqueValuesFromColumn" /\ ~call.done
  /\ call' = [call EXCEPT
                !.ret = getUniqueValuesFromColumn(call.args[1], call.args[2]),
                !.done = TRUE]
  /\ UNCHANGED mainVars

CallConfigureColumn ==
  /\ call.fn = "configureColumn" /\ ~call.done
  /\ call' = [call EXCEPT
                !.ret = configureColumn(call.args[1], call.args[2], call.args[3]),
                !.done = TRUE]
  /\ UNCHANGED mainVars

NextCall == CallRandomNumber \/ CallUniqueValues \/ CallConfigureColumn

SpecCall == InitCall /\ [][NextCall]_vars

\* ------------------------------------------------------ sequences of saves
SaveNames == {<<"t">>, <<"u">>, <<"v">>}

SaveConfigurations ==
  { << [header |-> <<"a">>, type |-> "2", list |-> <<Num(7), NaN>>] >>,
    << [header |-> <<"a">>, type |-> "5", start |-> 1, step |-> 1],
       [header |-> <<"b">>, type |-> "4", length |-> 2] >> }

\* Stores as in ConfigFiles, and one that holds a name twice
SaveFiles ==
  ConfigFiles \cup {[kind |-> "json", doc |-> <<StoredTemplates[1], StoredTemplates[3]>>]}

InitSave ==
  /\ configFile \in SaveFiles
  /\ fs = [p \in Paths |-> MissingSource]
  /\ pc = "save"
  /\ config = [templates |-> <<>>]
  /\ useTemplate = FALSE
  /\ templateConfig = NoTemplate
  /\ sourceFilePath = ""
  /\ records = <<>>
  /\ headers = <<>>
  /\ columnConfigurations = <<>>
  /\ numRecords = Undefined
  /\ includeHeader = Undefined
  /\ editQueue = <<>>
  /\ outputData = <<>>
  /\ outputFile = NoOutput
  /\ savedName = <<>>
  /\ saveResult = FALSE
  /\ exitCode = -1
  /\ call = NoCall

\* One call of saveConfiguration, at the end of some run
SaveCall ==
  /\ pc = "save"
  /\ \E name \in SaveNames, configs \in SaveConfigurations, n \in {1, 2},
        writeOk \in BOOLEAN :
       LET r == saveConfiguration(configFile, name, "a.csv", configs, n, TRUE,
                                  1, writeOk)
       IN /\ configFile' = r.file
          /\ saveResult' = r.ret
          /\ savedName' = name
  /\ UNCHANGED <<fs, pc, config, useTemplate, templateConfig, sourceFilePath,
                 records, headers, columnConfigurations, numRecords,
                 includeHeader, editQueue, outputData, outputFile, exitCode, call>>

SpecSave == InitSave /\ [][SaveCall]_vars

\* ----------------------------------------------------------------- claims
\* The headers of the configurations, in their declared order
ConfiguredHeaders == [k \in 1..Len(columnConfigurations) |-> columnConfigurations[k].header]

\* C1: once the generation loop has ended for a row count of at least 1, the
\* output table has exactly numRecords records and the columns of every
\* record are the configurations' headers in their declared order.
C1_OutputFollowsConfigurations ==
  (outputFile.written /\ numRecords >= 1) =>
    /\ Len(outputData) = numRecords
    /\ \A i \in 1..Len(outputData) : Keys(outputData[i]) = ConfiguredHeaders

\* C2: getRandomNumber(min, max) with min <= max returns a value between min
\* and max, both included, and min itself when min = max.
C2_RandomNumberInRange ==
  (call.fn = "getRandomNumber" /\ call.done /\ QLe(call.args[1], call.args[2])) =>
    /\ QLe(call.args[1], call.ret)
    /\ QLe(call.ret, call.args[2])
    /\ (call.args[1] = call.args[2] => call.ret = call.args[1])

\* The same for integers min and max: this much holds of getRandomNumber.
RandomNumberInIntegerRange ==
  (call.fn = "getRandomNumber" /\ call.args[1][2] = 1 /\ call.args[2][2] = 1) =>
    C2_RandomNumberInRange

\* C3: in a column of type '6' with a list of length L >= 1, rows 0..L-1 hold
\* the list in order and every later row holds what the row L before it held.
C3_CyclicListRepeats ==
  \A k \in 1..Len(columnConfigurations) :
    LET c == columnConfigurations[k] IN
    (c.type = "6" /\ Len(c.list) >= 1) =>
      \A i \in 0..(Len(outputData) - 1) :
        LET value == Get(outputData[i + 1], c.header) IN
        IF i < Len(c.list)
          THEN value = c.list[i + 1]
          ELSE value = Get(outputData[i + 1 - Len(c.list)], c.header)

\* C3 witness: a list of two different values has been generated twice over,
\* in rows 0..3.
C3_ListTwice ==
  \E k \in 1..Len(columnConfigurations) :
    LET c == columnConfigurations[k] IN
    /\ c.type = "6" /\ Len(c.list) = 2 /\ c.list[1] # c.list[2]
    /\ Len(outputData) = 4
    /\ [i \in 1..4 |-> Get(outputData[i], c.header)] = c.list \o c.list

\* C4: getUniqueValuesFromColumn returns the column's values that are not
\* undefined, null or the empty string, each once, in order of first
\* occurrence; the empty sequence when there is none.
C4_UniqueValues ==
  (call.fn = "getUniqueValuesFromColumn" /\ call.done) =>
    LET values == [k \in 1..Len(call.args[1]) |-> Get(call.args[1][k], call.args[2])]
        out == call.ret
        empty(v) == v = Undefined \/ v = Null \/ v = Str(<<>>)
        first(v) == CHOOSE k \in 1..Len(values) :
                      values[k] = v /\ \A j \in 1..(k - 1) : values[j] # v
    IN /\ \A i, j \in 1..Len(out) : i # j => out[i] # out[j]
       /\ \A i \in 1..Len(out) : ~empty(out[i])
       /\ \A i \in 1..Len(out) : \E k \in 1..Len(values) : values[k] = out[i]
       /\ \A k \in 1..Len(values) :
            ~empty(values[k]) => \E i \in 1..Len(out) : out[i] = values[k]
       /\ \A i, j \in 1..Len(out) : i < j => first(out[i]) < first(out[j])
       /\ ((\A k \in 1..Len(values) : empty(values[k])) => out = <<>>)

\* C4 witness: from "b", null, "b" the call returned "b" alone.
C4_DuplicateAndNullDropped ==
  /\ call.fn = "getUniqueValuesFromColumn" /\ call.done
  /\ [k \in 1..Len(call.args[1]) |-> Get(call.args[1][k], call.args[2])]
       = <<Str(<<"b">>), Null, Str(<<"b">>)>>
  /\ call.ret = <<Str(<<"b">>)>>

\* The templates loadConfigurations finds in a file
StoredIn(file) == loadConfigurations(file).templates

\* C5: a save that succeeds replaces the first stored template of that name
\* where it is, every other entry and the length staying as they were, or,
\* when no stored template has the name, appends the new template after the
\* existing entries; names that were unique stay unique.
C5_SaveOverwritesByName ==
  [][(pc \in {"askSave", "save"} /\ savedName' # <<>> /\ saveResult') =>
       LET old == StoredIn(configFile)
           new == StoredIn(configFile')
           named == {k \in 1..Len(old) : old[k].name = savedName'}
           unique(ts) == \A i, j \in 1..Len(ts) : ts[i].name = ts[j].name => i = j
       IN /\ IF named # {}
               THEN LET at == CHOOSE k \in named : \A j \in named : k <= j IN
                    /\ Len(new) = Len(old)
                    /\ new[at].name = savedName'
                    /\ \A j \in 1..Len(old) : j # at => new[j] = old[j]
               ELSE /\ Len(new) = Len(old) + 1
                    /\ new[Len(new)].name = savedName'
                    /\ \A j \in 1..Len(old) : new[j] = old[j]
          /\ (unique(old) => unique(new))]_vars

\* C5 witness: a save has replaced the first of two stored templates (it is
\* the newer one, which no append leaves in front) and the second is as it was.
C5_FirstTemplateReplaced ==
  /\ saveResult
  /\ Len(StoredIn(configFile)) = 2
  /\ StoredIn(configFile)[1].name = savedName
  /\ StoredIn(configFile)[1].createdAt = 1
  /\ StoredIn(configFile)[2].createdAt = 0

\* C6: after saveConfiguration has returned true, the store as loaded holds
\* an entry of the saved name whose sourceFile, columnConfigurations,
\* numRecords and includeHeader equal the arguments of the save.
C6_SaveLoadRoundTrip ==
  (pc = "done" /\ savedName # <<>> /\ saveResult) =>
    \E k \in 1..Len(StoredIn(configFile)) :
      LET t == StoredIn(configFile)[k] IN
      /\ t.name = savedName
      /\ t.sourceFile = sourceFilePath
      /\ t.columnConfigurations = columnConfigurations
      /\ t.numRecords = numRecords
      /\ t.includeHeader = includeHeader

\* C7: a config.json that is missing or does not parse loads as a store with
\* no template, and the run goes on as a run from scratch: no template is
\* offered or used, and only the source file can end the run early.
C7_UnreadableStoreIsEmpty ==
  (configFile.kind \in {"missing", "corrupt"}) =>
    /\ StoredIn(configFile) = <<>>
    /\ pc # "start" =>
         /\ config.templates = <<>>
         /\ ~useTemplate
         /\ pc \in {"source", "exit", "configure", "askNumRecords", "askHeader",
                    "generate", "askSave", "done"}

\* C7 witness: with a config.json that does not parse, the run has written
\* its output.
C7_CorruptStoreRunGenerates ==
  configFile.kind = "corrupt" /\ outputFile.written /\ Len(outputData) >= 1

\* C9: no configuration of type '1' with min > max is among those the
\* generation loop runs over.
C9_NoInvertedRangeGenerated ==
  pc \in {"generate", "askSave", "done"} =>
    \A k \in 1..Len(columnConfigurations) :
      columnConfigurations[k].type = "1" =>
        QLe(columnConfigurations[k].min, columnConfigurations[k].max)

\* C10: no run writes an output table for a row count of 0 or less.
C10_NoOutputForNonPositiveRowCount ==
  outputFile.written => numRecords > 0

\* C8: asked to use the source values, configureColumn stores the column's
\* pool when it is not empty; for type '2' it stores the pool's entries that
\* Number() makes a number, as numbers and in pool order, when there is such
\* an entry.  When the pool (for type '2': the pool's numbers) is empty it
\* asks for a custom list and stores that list.
C8_SourceValuesOrFallback ==
  (/\ call.fn = "configureColumn" /\ call.done
   /\ \/ call.args[3].generationType = "3-source"
      \/ call.args[3].generationType \in {"2", "3", "6"} /\ call.args[3].useSource) =>
    LET type == call.args[3].generationType
        pool == getUniqueValuesFromColumn(call.args[2], call.args[1])
        numbers == SelectSeq([k \in 1..Len(pool) |-> ToNumber(pool[k])],
                             LAMBDA v : v[1] = "num")
        source == IF type = "2" THEN numbers ELSE pool
        prompt == IF type = "2" THEN "numericList" ELSE "alphaList"
        asked == call.ret.asked
        parts == Split(call.args[3].listInput, ",")
    IN IF source # <<>>
         THEN /\ call.ret.config.list = source
              /\ \A k \in 1..Len(asked) : asked[k] \notin {"numericList", "alphaList"}
         ELSE /\ asked[Len(asked)] = prompt
              /\ Len(call.ret.config.list) = Len(parts)
              /\ \A k \in 1..Len(parts) :
                   call.ret.config.list[k] =
                     IF type = "2" THEN StringToNumber(parts[k]) ELSE Str(Trim(parts[k]))

\* C8 witness: for type '2' a pool of three entries, the second of them no
\* number, has given a list of two numbers: of "1", and of the blank, which
\* Number() makes 0.
C8_NonNumericEntryDropped ==
  /\ call.fn = "configureColumn" /\ call.done
  /\ call.args[3].generationType = "2" /\ call.args[3].useSource
  /\ getUniqueValuesFromColumn(call.args[2], call.args[1])
       = <<Str(<<"1">>), Str(<<"a", "b">>), Str(<<" ">>)>>
  /\ call.ret.config.list = <<Num(1), Num(0)>>


\* The paths main may read the source from, once the template is chosen
SourceCandidates == IF useTemplate THEN {templateConfig.sourceFile} ELSE Paths

NoRecordsAt(path) == fs[path].kind = "missing" \/ fs[path].rows = <<>>

\* C11: when the source file does not exist or parses to zero records, the
\* run ends with exit code 1 before the generation loop: it is never past the
\* read in any other state, no output CSV is written and config.json is as
\* the run loaded it; and a run that has only such files to read does end so.
C11_ReadErrorExits ==
  /\ []((pc \notin {"start", "chooseTemplate", "source"} /\ NoRecordsAt(sourceFilePath))
         => /\ pc = "exit" /\ exitCode = 1
            /\ outputData = <<>> /\ ~outputFile.written
            /\ savedName = <<>> /\ loadConfigurations(configFile) = config)
  /\ ((pc = "source" /\ \A p \in SourceCandidates : NoRecordsAt(p))
        ~> (pc = "exit" /\ exitCode = 1))

\* C11 witness: a template's source file holds a header line and no record,
\* and the run has ended with exit code 1.
C11_HeaderOnlySourceExits ==
  /\ pc = "exit" /\ exitCode = 1 /\ useTemplate
  /\ fs[sourceFilePath].kind = "csv" /\ fs[sourceFilePath].rows = <<>>

Unique(hs) == \A i, j \in 1..Len(hs) : hs[i] = hs[j] => i = j

Count(hs, h) == Cardinality({k \in 1..Len(hs) : hs[k] = h})

TemplateHeaders ==
  [k \in 1..Len(templateConfig.columnConfigurations) |->
     templateConfig.columnConfigurations[k].header]

\* C12: the headers of the configurations used for generation are unique: a
\* run from scratch has built exactly one configuration per source header, in
\* the order of the headers; a template run whose template has unique headers
\* keeps them unique, and each edit of a column leaves every header that had
\* a configuration with as many configurations as before.
C12_HeadersStayUnique ==
  /\ []((~useTemplate /\ pc \in {"askNumRecords", "askHeader", "generate", "askSave", "done"})
         => (ConfiguredHeaders = headers /\ Unique(ConfiguredHeaders)))
  /\ []((useTemplate /\ pc \in {"askEdit", "edit", "generate", "done"}
           /\ Unique(TemplateHeaders))
         => Unique(ConfiguredHeaders))
  /\ [][(pc = "edit" /\ Unique(ConfiguredHeaders))
         => /\ Unique(ConfiguredHeaders')
            /\ \A k \in 1..Len(ConfiguredHeaders) :
                 Count(ConfiguredHeaders', ConfiguredHeaders[k]) =
                   Count(ConfiguredHeaders, ConfiguredHeaders[k])]_vars

\* C12 witness: in a template run the template's first column, of two, has
\* been edited: its new configuration is the last, and there are still two.
C12_FirstColumnEdited ==
  /\ useTemplate /\ pc = "generate" /\ editQueue = <<>>
  /\ Len(columnConfigurations) = 2 /\ Len(TemplateHeaders) = 2
  /\ ConfiguredHeaders[2] = TemplateHeaders[1]
  /\ ConfiguredHeaders[1] = TemplateHeaders[2]

======================================================================
